---- MODULE Spec2Model ----
(***************************************************************************)
(* Foveated-panorama transcoder: Optimizer::optimizeImage (encode) and     *)
(* Optimizer::extractImage (decode) of src/src/optimizer/optimizer.cpp.    *)
(*                                                                         *)
(* A cv::Mat is a record [rows, cols, data]; data is a sequence of rows,   *)
(* each a sequence of pixel values.  The source pixel at (row r, column c) *)
(* (0-based) of a frame of the given width carries the label               *)
(* 1 + r*width + c, black is 0, and every pixel produced by cv::resize is  *)
(* Lossy (an interpolated value the code does not control).                *)
(***************************************************************************)
EXTENDS Integers, Sequences, FiniteSets

VARIABLES pc, image, angle0, vAngle, angle, leftCol, rightCol, branch,
          cropped, enc, optImage, dec, croppedImage, fullImage

vars == <<pc, image, angle0, vAngle, angle, leftCol, rightCol, branch,
          cropped, enc, optImage, dec, croppedImage, fullImage>>

---------------------------------------------------------------------------
(* Program constants, optimizer.cpp:11-14 *)
CROP_ANGLE == 120
H_FOCUS_ANGLE == 20
V_FOCUS_ANGLE == 20
BLUR_FACTOR == 5

(* Degrees spanned by the columns (azimuth) and the rows (elevation). *)
FULL_TURN == 360
HALF_TURN == 180

(* Bounds of the round-trip specification Spec. *)
MinWidth == 108
MaxWidth == 110
MinHeight == 16
MaxHeight == 19
AngleStep == 60
MaxTurn == 6
VStep == 30
MaxVTurn == 6

(* Bounds of the cropping specification SpecCrop. *)
MaxCropWidth == 67
MaxCropHeight == 1
MaxAngle == 365

Black == 0
Lossy == -1

---------------------------------------------------------------------------
(* Integer and double arithmetic as the C++ build computes it. *)

\* C's x % n for n > 0: the remainder takes the sign of the dividend.
CRem(x, n) == IF x >= 0 THEN x % n ELSE -((-x) % n)

RECURSIVE Pow2(_)
Pow2(n) == IF n <= 0 THEN 1 ELSE 2 * Pow2(n - 1)

RECURSIVE PowMod2(_, _)
PowMod2(s, m) == IF s = 0 THEN 1 % m ELSE (2 * PowMod2(s - 1, m)) % m

RECURSIVE ExpUp(_, _, _)
ExpUp(n, den, e) == IF den * Pow2(e + 1) <= n THEN ExpUp(n, den, e + 1) ELSE e

RECURSIVE ExpDown(_, _, _)
ExpDown(n, den, k) == IF n * Pow2(k) >= den THEN k ELSE ExpDown(n, den, k + 1)

\* The binary exponent e of the quotient n/den (n, den > 0): 2^e <= n/den < 2^(e+1).
QuotExp(n, den) == IF n >= den THEN ExpUp(n, den, 0) ELSE -ExpDown(n, den, 1)

\* The double nearest to n/den is (n*2^s + DivErr(n, den)) / (den*2^s) with
\* s = 52 - QuotExp(n, den): round to nearest, ties to even.
DivErr(n, den) ==
    LET s  == 52 - QuotExp(n, den)
        r  == ((n % den) * PowMod2(s, den)) % den
        r2 == ((n % (2 * den)) * PowMod2(s, 2 * den)) % (2 * den)
    IN  IF 2 * r < den THEN -r
        ELSE IF 2 * r > den THEN den - r
        ELSE IF r2 < den THEN -r ELSE den - r

RECURSIVE FloorLog2(_)
FloorLog2(k) == IF k <= 1 THEN 0 ELSE 1 + FloorLog2(k \div 2)

IsPow2(k) == Pow2(FloorLog2(k)) = k

\* (int)(a * (n / (double) den)) for a >= 0 and n, den > 0: the quotient is
\* rounded to a double, the product is rounded to a double, the conversion
\* truncates.  The result is the exact floor(a*n/den) unless a*n/den is an
\* integer k and the rounded product falls on the double just below k.
MulTruncPos(a, n, den) ==
    LET X  == a * n
        k  == X \div den
        d  == DivErr(n, den)
        e1 == IF IsPow2(k) THEN FloorLog2(k) - 1 ELSE FloorLog2(k)
    IN  IF X % den # 0 \/ a = 0 \/ d >= 0 THEN k
        ELSE IF 4 * a * (-d) > den * Pow2(e1 - QuotExp(n, den) + 1) THEN k - 1
        ELSE k

\* The same for any integer a: rounding is symmetric and (int) truncates to zero.
MulTrunc(a, n, den) ==
    IF a >= 0 THEN MulTruncPos(a, n, den) ELSE -MulTruncPos(-a, n, den)

---------------------------------------------------------------------------
(* cv::Mat, cv::Size and the OpenCV calls the optimizer makes. *)

Size(w, h) == [width |-> w, height |-> h]
SizeOf(m) == Size(m.cols, m.rows)
SizeEmpty(sz) == sz.width <= 0 \/ sz.height <= 0

NoMat == [rows |-> 0, cols |-> 0, data |-> <<>>]

\* Mat(rows, cols, type) followed by setTo(v).
Filled(rows, cols, v) ==
    [rows |-> rows, cols |-> cols,
     data |-> [r \in 1..rows |-> [c \in 1..cols |-> v]]]

\* A source frame: every pixel carries its own position.
SourceImage(w, h) ==
    [rows |-> h, cols |-> w,
     data |-> [r \in 1..h |-> [c \in 1..w |-> 1 + (r - 1) * w + (c - 1)]]]

\* Pixel (r, c), 0-based, as m.at(r, c).
At(m, r, c) == m.data[r + 1][c + 1]

\* Mat(m, Range, Range) checks CV_Assert(0 <= start && start <= end && end <= n).
RangeOK(a, b, n) == 0 <= a /\ a <= b /\ b <= n

\* Mat(m, Range::all(), Range(a, b)): columns a .. b-1.
ColRange(m, a, b) ==
    [rows |-> m.rows, cols |-> b - a,
     data |-> [r \in 1..m.rows |-> SubSeq(m.data[r], a + 1, b)]]

\* Mat(m, Range(a, b)): rows a .. b-1.
RowRange(m, a, b) ==
    [rows |-> b - a, cols |-> m.cols, data |-> SubSeq(m.data, a + 1, b)]

\* cv::hconcat / cv::vconcat demand equal row / column counts.
HConcatOK(a, b) == a.rows = b.rows
HConcat(a, b) ==
    [rows |-> a.rows, cols |-> a.cols + b.cols,
     data |-> [r \in 1..a.rows |-> a.data[r] \o b.data[r]]]
VConcatOK(a, b) == a.cols = b.cols
VConcat(a, b) ==
    [rows |-> a.rows + b.rows, cols |-> a.cols, data |-> a.data \o b.data]

\* cv::resize(src, dst, dsize): CV_Assert(!ssize.empty()) and a non-empty dsize.
ResizeOK(src, dsize) == ~SizeEmpty(SizeOf(src)) /\ ~SizeEmpty(dsize)
Resize(src, dsize) == Filled(dsize.height, dsize.width, Lossy)

\* ImageUtil::hconcat3 / vconcat3: the horizontal / vertical stack a + b + c.
HConcat3OK(a, b, c) == HConcatOK(a, b) /\ HConcatOK(b, c)
HConcat3(a, b, c) == HConcat(HConcat(a, b), c)
VConcat3OK(a, b, c) == VConcatOK(a, b) /\ VConcatOK(b, c)
VConcat3(a, b, c) == VConcat(VConcat(a, b), c)

\* ImageUtil::imageSize: the byte size of a panel, in units of one pixel.
imageSize(m) == m.rows * m.cols

---------------------------------------------------------------------------
(* OptimizedImage *)

OptimizedImage(focused, bLeft, bRight, bTop, bBottom, hSize, vSize, fullSize, lBuf) ==
    [focused |-> focused, blurredLeft |-> bLeft, blurredRight |-> bRight,
     blurredTop |-> bTop, blurredBottom |-> bBottom, origHSize |-> hSize,
     origVSize |-> vSize, fullSize |-> fullSize, leftBuffer |-> lBuf]

NoImage ==
    OptimizedImage(NoMat, NoMat, NoMat, NoMat, NoMat,
                   Size(0, 0), Size(0, 0), Size(0, 0), 0)

\* OptimizedImage::size()
OptimizedSize(o) ==
    imageSize(o.focused) + imageSize(o.blurredLeft) + imageSize(o.blurredRight)
    + imageSize(o.blurredTop) + imageSize(o.blurredBottom)

---------------------------------------------------------------------------
(* Optimizer::optimizeImage *)

constrainAngleNoFix(x) == CRem(x, FULL_TURN)

constrainAngle(x) ==
    LET r == CRem(x, FULL_TURN) IN IF r < 0 THEN r + FULL_TURN ELSE r

leftAngleOf(a) == constrainAngle(a - CROP_ANGLE \div 2)
rightAngleOf(a) == constrainAngle(a + CROP_ANGLE \div 2)

\* int col = someAngle * angleToWidth, with angleToWidth = width / 360.0
ToCol(a, width) == MulTrunc(a, width, FULL_TURN)
\* int row = someAngle * angleToHeight, with angleToHeight = height / 180.0
ToRow(a, height) == MulTrunc(a, height, HALF_TURN)

WrapsInverted(lc, rc) == lc < rc

\* The else branch of `if (leftCol < rightCol)`.
Wraps(lc, rc) == ~(lc < rc)

CropSwapped(img, lc, rc) ==
    IF ~Wraps(lc, rc) THEN ColRange(img, lc, rc)
    ELSE HConcat(ColRange(img, 0, rc), ColRange(img, lc, img.cols))

CropLeftOnly(img, lc, rc) ==
    IF ~Wraps(lc, rc) THEN ColRange(img, lc, rc)
    ELSE ColRange(img, lc, img.cols)

Crop(img, lc, rc) ==
    IF ~Wraps(lc, rc) THEN ColRange(img, lc, rc)
    ELSE HConcat(ColRange(img, lc, img.cols), ColRange(img, 0, rc))

SmallSizeScaledUp(m) == Size(m.cols * BLUR_FACTOR, m.rows * BLUR_FACTOR)

SmallSize(m) == Size(m.cols \div BLUR_FACTOR, m.rows \div BLUR_FACTOR)

focusBottomRowMinus(mid, focusHeight) == mid - focusHeight \div 2

focusTopRowOf(mid, focusHeight) == mid - focusHeight \div 2
focusBottomRowOf(mid, focusHeight) == mid + focusHeight \div 2

\* The locals of optimizeImage that outlive one step.
NoEnc ==
    [left |-> NoMat, middle |-> NoMat, right |-> NoMat,
     blurredLeft |-> NoMat, blurredRight |-> NoMat, origHSize |-> Size(0, 0),
     top |-> NoMat, focused |-> NoMat, bottom |-> NoMat,
     focusLeftCol |-> 0, focusTopRow |-> 0]

---------------------------------------------------------------------------
(* Optimizer::extractImage *)

\* The locals of extractImage that outlive one step.
NoDec ==
    [left |-> NoMat, right |-> NoMat, top |-> NoMat, bottom |-> NoMat,
     fullLeft |-> NoMat, fullCenter |-> NoMat, fullRight |-> NoMat]

\* The placement test of line 190.
WrapCase(ci, o) == ci.cols + o.leftBuffer >= o.fullSize.width

AssembleReversed(fullLeft, fullCenter, fullRight) ==
    HConcat3(fullRight, fullCenter, fullLeft)

\* ImageUtil::hconcat3(fullLeft, fullCenter, fullRight, fullImage)
Assemble(fullLeft, fullCenter, fullRight) ==
    HConcat3(fullLeft, fullCenter, fullRight)

---------------------------------------------------------------------------
(* The state machine: one encode followed by one decode of its result.     *)
(* pc is the position in the two calls: "optimizeThrew" and "extractThrew" *)
(* are a cv::Exception leaving the call, "aborted" a failed ASSERT/ENSURES.*)

Widths == MinWidth..MaxWidth
Heights == MinHeight..MaxHeight
Angles == {AngleStep * k : k \in (-1)..MaxTurn}
VAngles == {VStep * k : k \in 1..MaxVTurn}

Start(img, a, va) ==
    /\ pc = "start"
    /\ image = img
    /\ angle0 = a
    /\ vAngle = va
    /\ angle = 0
    /\ leftCol = 0
    /\ rightCol = 0
    /\ branch = "none"
    /\ cropped = NoMat
    /\ enc = NoEnc
    /\ optImage = NoImage
    /\ dec = NoDec
    /\ croppedImage = NoMat
    /\ fullImage = NoMat

Init ==
    \E w \in Widths, h \in Heights, a \in Angles, va \in VAngles :
        Start(SourceImage(w, h), a, va)

\* optimizeImage, lines 65-97: normalise the azimuth and cut the crop.
CropStep ==
    /\ pc = "start"
    /\ LET a == constrainAngle(angle0)
           lc == ToCol(leftAngleOf(a), image.cols)
           rc == ToCol(rightAngleOf(a), image.cols)
           asserts == 0 <= lc /\ lc < image.cols /\ 0 <= rc /\ rc < image.cols
       IN  /\ angle' = a
           /\ leftCol' = lc
           /\ rightCol' = rc
           /\ IF asserts
              THEN /\ pc' = "cropped"
                   /\ branch' = IF Wraps(lc, rc) THEN "wrap" ELSE "contiguous"
                   /\ cropped' = Crop(image, lc, rc)
              ELSE /\ pc' = "aborted"
                   /\ UNCHANGED <<branch, cropped>>
    /\ UNCHANGED <<image, angle0, vAngle, enc, optImage, dec, croppedImage,
                   fullImage>>

\* optimizeImage, lines 99-112: the horizontal split of the crop.
SplitH ==
    /\ pc = "cropped"
    /\ LET focusWidth == ToCol(H_FOCUS_ANGLE, image.cols)
           focusLeftCol == cropped.cols \div 2 - focusWidth \div 2
           focusRightCol == cropped.cols \div 2 + focusWidth \div 2
           asserts == 0 <= focusLeftCol /\ focusLeftCol <= focusRightCol
                      /\ focusRightCol < cropped.cols
       IN  IF asserts
           THEN /\ pc' = "splitH"
                /\ enc' = [enc EXCEPT
                             !.middle = ColRange(cropped, focusLeftCol, focusRightCol),
                             !.left = ColRange(cropped, 0, focusLeftCol),
                             !.right = ColRange(cropped, focusRightCol, cropped.cols),
                             !.focusLeftCol = focusLeftCol]
           ELSE /\ pc' = "aborted"
                /\ UNCHANGED enc
    /\ UNCHANGED <<image, angle0, vAngle, angle, leftCol, rightCol, branch,
                   cropped, optImage, dec, croppedImage, fullImage>>

\* optimizeImage, lines 114-124: both side strips are shrunk to the small
\* size of the LEFT strip.
BlurH ==
    /\ pc = "splitH"
    /\ LET smallSize == SmallSize(enc.left)
       IN  IF ResizeOK(enc.left, smallSize) /\ ResizeOK(enc.right, smallSize)
           THEN /\ pc' = "blurredH"
                /\ enc' = [enc EXCEPT
                             !.origHSize = SizeOf(enc.left),
                             !.blurredLeft = Resize(enc.left, smallSize),
                             !.blurredRight = Resize(enc.right, smallSize)]
           ELSE /\ pc' = "optimizeThrew"
                /\ UNCHANGED enc
    /\ UNCHANGED <<image, angle0, vAngle, angle, leftCol, rightCol, branch,
                   cropped, optImage, dec, croppedImage, fullImage>>

\* optimizeImage, lines 126-136: the vertical split of the focus band.
SplitV ==
    /\ pc = "blurredH"
    /\ LET focusHeight == ToRow(V_FOCUS_ANGLE, image.rows)
           focusMiddleRow == ToRow(vAngle, image.rows)
           focusTopRow == focusTopRowOf(focusMiddleRow, focusHeight)
           focusBottomRow == focusBottomRowOf(focusMiddleRow, focusHeight)
           rows == enc.middle.rows
       IN  IF /\ RangeOK(0, focusTopRow, rows)
              /\ RangeOK(focusTopRow, focusBottomRow, rows)
              /\ RangeOK(focusBottomRow, rows, rows)
           THEN /\ pc' = "splitV"
                /\ enc' = [enc EXCEPT
                             !.top = RowRange(enc.middle, 0, focusTopRow),
                             !.focused = RowRange(enc.middle, focusTopRow, focusBottomRow),
                             !.bottom = RowRange(enc.middle, focusBottomRow, rows),
                             !.focusTopRow = focusTopRow]
           ELSE /\ pc' = "optimizeThrew"
                /\ UNCHANGED enc
    /\ UNCHANGED <<image, angle0, vAngle, angle, leftCol, rightCol, branch,
                   cropped, optImage, dec, croppedImage, fullImage>>

\* optimizeImage, lines 138-152: both vertical strips are shrunk to the
\* small size of the TOP strip, and the record is built and returned.
BlurV ==
    /\ pc = "splitV"
    /\ LET origVSize == SizeOf(enc.top)
           smallVSize == SmallSize(enc.top)
       IN  IF ResizeOK(enc.top, smallVSize) /\ ResizeOK(enc.bottom, smallVSize)
           THEN /\ pc' = "optimized"
                /\ optImage' = OptimizedImage(enc.focused,
                                   enc.blurredLeft, enc.blurredRight,
                                   Resize(enc.top, smallVSize),
                                   Resize(enc.bottom, smallVSize),
                                   enc.origHSize, origVSize,
                                   SizeOf(image), leftCol)
           ELSE /\ pc' = "optimizeThrew"
                /\ UNCHANGED optImage
    /\ UNCHANGED <<image, angle0, vAngle, angle, leftCol, rightCol, branch,
                   cropped, enc, dec, croppedImage, fullImage>>

\* extractImage, lines 157-169: left and right are enlarged to origHSize,
\* top and bottom to origVSize.
Upsample ==
    /\ pc = "optimized"
    /\ IF /\ ResizeOK(optImage.blurredLeft, optImage.origHSize)
          /\ ResizeOK(optImage.blurredRight, optImage.origHSize)
          /\ ResizeOK(optImage.blurredTop, optImage.origVSize)
          /\ ResizeOK(optImage.blurredBottom, optImage.origVSize)
       THEN /\ pc' = "upsampled"
            /\ dec' = [dec EXCEPT
                         !.left = Resize(optImage.blurredLeft, optImage.origHSize),
                         !.right = Resize(optImage.blurredRight, optImage.origHSize),
                         !.top = Resize(optImage.blurredTop, optImage.origVSize),
                         !.bottom = Resize(optImage.blurredBottom, optImage.origVSize)]
       ELSE /\ pc' = "extractThrew"
            /\ UNCHANGED dec
    /\ UNCHANGED <<image, angle0, vAngle, angle, leftCol, rightCol, branch,
                   cropped, enc, optImage, croppedImage, fullImage>>

\* extractImage, lines 171-180: middle = top + focused + bottom, then
\* croppedImage = left + middle + right.
Reconstruct ==
    /\ pc = "upsampled"
    /\ LET middle == VConcat3(dec.top, optImage.focused, dec.bottom)
       IN  IF /\ VConcat3OK(dec.top, optImage.focused, dec.bottom)
              /\ HConcat3OK(dec.left, middle, dec.right)
           THEN /\ pc' = "reconstructed"
                /\ croppedImage' = HConcat3(dec.left, middle, dec.right)
           ELSE /\ pc' = "extractThrew"
                /\ UNCHANGED croppedImage
    /\ UNCHANGED <<image, angle0, vAngle, angle, leftCol, rightCol, branch,
                   cropped, enc, optImage, dec, fullImage>>

\* extractImage, lines 182-224: the three parts of the full frame.
Place ==
    /\ pc = "reconstructed"
    /\ LET numRows == croppedImage.rows
           width == optImage.fullSize.width
           rightEndExclusive == width - optImage.leftBuffer
           centerCols == width - rightEndExclusive
                         - (croppedImage.cols - rightEndExclusive)
           leftBufferCols == optImage.leftBuffer
           rightBufferCols == width - leftBufferCols - croppedImage.cols
       IN  IF WrapCase(croppedImage, optImage)
           THEN IF /\ 0 <= rightEndExclusive
                   /\ rightEndExclusive <= croppedImage.cols
                   /\ centerCols >= 0
                THEN /\ pc' = "placed"
                     /\ dec' = [dec EXCEPT
                                  !.fullRight = ColRange(croppedImage, 0, rightEndExclusive),
                                  !.fullLeft = ColRange(croppedImage, rightEndExclusive,
                                                        croppedImage.cols),
                                  !.fullCenter = Filled(numRows, centerCols, Black)]
                ELSE /\ pc' = "aborted"
                     /\ UNCHANGED dec
           ELSE IF rightBufferCols >= 0
                THEN /\ pc' = "placed"
                     /\ dec' = [dec EXCEPT
                                  !.fullLeft = Filled(numRows, leftBufferCols, Black),
                                  !.fullCenter = croppedImage,
                                  !.fullRight = Filled(numRows, rightBufferCols, Black)]
                ELSE /\ pc' = "aborted"
                     /\ UNCHANGED dec
    /\ UNCHANGED <<image, angle0, vAngle, angle, leftCol, rightCol, branch,
                   cropped, enc, optImage, croppedImage, fullImage>>

\* extractImage, lines 227-234: the frame is stacked and its size checked.
AssembleStep ==
    /\ pc = "placed"
    /\ fullImage' = Assemble(dec.fullLeft, dec.fullCenter, dec.fullRight)
    /\ pc' = IF SizeOf(fullImage') = optImage.fullSize THEN "extracted"
             ELSE "aborted"
    /\ UNCHANGED <<image, angle0, vAngle, angle, leftCol, rightCol, branch,
                   cropped, enc, optImage, dec, croppedImage>>

Next ==
    \/ CropStep
    \/ SplitH
    \/ BlurH
    \/ SplitV
    \/ BlurV
    \/ Upsample
    \/ Reconstruct
    \/ Place
    \/ AssembleStep

Spec == Init /\ [][Next]_vars

\* The cropping step alone, over every small width and every azimuth.
CropWidths == 1..MaxCropWidth
CropHeights == 1..MaxCropHeight
CropAngles == (-MaxAngle)..MaxAngle

InitCrop ==
    \E w \in CropWidths, h \in CropHeights, a \in CropAngles :
        Start(SourceImage(w, h), a, HALF_TURN \div 2)

SpecCrop == InitCrop /\ [][CropStep]_vars

---------------------------------------------------------------------------
(* Properties *)

Abs(x) == IF x < 0 THEN -x ELSE x

\* The call of optimizeImage has returned its record.
Returned == pc \in {"optimized", "upsampled", "reconstructed", "placed",
                    "extracted", "extractThrew"}

\* The normalized azimuth's 120-degree window [a-60, a+60] reaches or
\* passes the 0/360 seam.
CrossesSeam(a) == a < CROP_ANGLE \div 2 \/ a >= FULL_TURN - CROP_ANGLE \div 2

\* C1: for any source image and angles, extractImage(optimizeImage(...))
\* completes and returns a frame of the size of the source image.
C1_RoundTripSize ==
    /\ pc # "extractThrew"
    /\ pc = "extracted" => SizeOf(fullImage) = SizeOf(image)

\* Where a frame is returned, every pixel of the focused patch is in it
\* with the value and at the place it has in the source image.
FocusedInPlace ==
    \A i \in 0..(optImage.focused.rows - 1), j \in 0..(optImage.focused.cols - 1) :
        LET r == enc.focusTopRow + i
            c == (optImage.leftBuffer + enc.focusLeftCol + j) % optImage.fullSize.width
        IN  /\ At(fullImage, r, c) = At(optImage.focused, i, j)
            /\ At(fullImage, r, c) = At(image, r, c)

\* C2: for any source image, azimuth and elevation, the decoded frame of
\* the encoded image holds every pixel of the focused patch, unchanged and
\* at its source position.
C2_FocusFidelity ==
    /\ pc # "extractThrew"
    /\ pc = "extracted" => FocusedInPlace

RecordInvariant(o) ==
    /\ \A m \in {o.focused, o.blurredLeft, o.blurredRight, o.blurredTop,
                 o.blurredBottom} : m.rows >= 1 /\ m.cols >= 1
    /\ o.origHSize.width > 0 /\ o.origHSize.height > 0
    /\ o.origVSize.width > 0 /\ o.origVSize.height > 0
    /\ 0 <= o.leftBuffer /\ o.leftBuffer < o.fullSize.width

\* C3 as stated: every OptimizedImage returned by optimizeImage satisfies
\* the record invariant (five non-empty panels, positive original sizes,
\* 0 <= leftBuffer < fullSize.width).
C3_RecordInvariantAnyImage == Returned => RecordInvariant(optImage)

\* The least number of rows for which the focus band has a row:
\* V_FOCUS_ANGLE * rows / 180 >= 2.
MinFocusRows == (2 * HALF_TURN) \div V_FOCUS_ANGLE

\* C3 amended: every OptimizedImage returned for a source image of at least
\* 18 rows satisfies the record invariant.
C3_RecordInvariant ==
    (Returned /\ image.rows >= MinFocusRows) => RecordInvariant(optImage)

C3_Witness ==
    /\ pc = "optimized"
    /\ image.rows >= MinFocusRows
    /\ optImage.focused.rows >= 1

\* C4 as stated: azimuth 0 takes the wraparound branch (leftCol > rightCol)
\* and azimuth 180 the contiguous branch (leftCol < rightCol) for every
\* image width, and the wraparound branch is taken exactly when the window
\* crosses the seam.
C4_BranchAnyWidth ==
    pc = "cropped" =>
        /\ angle = 0 => (branch = "wrap" /\ leftCol > rightCol)
        /\ angle = HALF_TURN => (branch = "contiguous" /\ leftCol < rightCol)
        /\ branch = "wrap" <=> CrossesSeam(angle)

\* C4 amended: the same for every image width of at least 3 columns.
C4_Branch ==
    (pc # "start" /\ image.cols >= 3) =>
        /\ angle = 0 => (branch = "wrap" /\ leftCol > rightCol)
        /\ angle = HALF_TURN => (branch = "contiguous" /\ leftCol < rightCol)
        /\ branch = "wrap" <=> CrossesSeam(angle)

C4_Witness ==
    /\ pc = "cropped"
    /\ image.cols >= 3
    /\ angle0 = 0
    /\ branch = "wrap"
    /\ leftCol > rightCol

\* C5: the five panels of a returned OptimizedImage hold, together, strictly
\* fewer pixels than the source image.
C5_Compression == Returned => OptimizedSize(optImage) < imageSize(image)

C5_Witness ==
    /\ pc = "optimized"
    /\ OptimizedSize(optImage) > 0
    /\ BLUR_FACTOR > 1

\* C6: column j of the crop is source column (leftCol + j) mod width, the
\* wraparound crop is [leftCol, width) followed by [0, rightCol), and no
\* source column appears twice.
C6_CropContinuity ==
    pc = "cropped" =>
        /\ cropped.rows = image.rows
        /\ \A r \in 0..(cropped.rows - 1), j \in 0..(cropped.cols - 1) :
               At(cropped, r, j) = At(image, r, (leftCol + j) % image.cols)
        /\ branch = "wrap" => cropped.cols = (image.cols - leftCol) + rightCol
        /\ Cardinality({At(cropped, 0, j) : j \in 0..(cropped.cols - 1)})
               = cropped.cols

C6_Witness ==
    /\ pc = "cropped"
    /\ branch = "wrap"
    /\ rightCol >= 2
    /\ image.cols - leftCol >= 2

\* C7 as stated: for every image width and azimuth the crop's width differs
\* from 120 * width / 360 by less than one pixel.
C7_CropWidthWithinOne ==
    pc = "cropped" =>
        Abs(FULL_TURN * cropped.cols - CROP_ANGLE * image.cols) < FULL_TURN

\* C7 amended: for every image width of at least 3 columns and every
\* azimuth the crop's width differs from 120 * width / 360 by at most one
\* pixel.
C7_CropWidth ==
    (pc = "cropped" /\ image.cols >= 3) =>
        Abs(FULL_TURN * cropped.cols - CROP_ANGLE * image.cols) <= FULL_TURN

\* The amended bound is met: a wraparound crop that is exactly one pixel off.
C7_Witness ==
    /\ pc = "cropped"
    /\ image.cols >= 3
    /\ branch = "wrap"
    /\ Abs(FULL_TURN * cropped.cols - CROP_ANGLE * image.cols) = FULL_TURN

\* The parts of croppedImage in the wrap case of extractImage.
RightPart == ColRange(croppedImage, 0, optImage.fullSize.width - optImage.leftBuffer)
LeftPart ==
    ColRange(croppedImage, optImage.fullSize.width - optImage.leftBuffer,
             croppedImage.cols)
BlackGap ==
    Filled(croppedImage.rows, optImage.fullSize.width - croppedImage.cols, Black)

C9_StructuralInverse ==
    /\ pc \in {"upsampled", "reconstructed", "placed", "extracted", "extractThrew"} =>
           /\ SizeOf(dec.left) = SizeOf(enc.left)
           /\ SizeOf(dec.right) = SizeOf(enc.right)
           /\ SizeOf(dec.top) = SizeOf(enc.top)
           /\ SizeOf(dec.bottom) = SizeOf(enc.bottom)
    /\ pc \in {"reconstructed", "placed", "extracted"} =>
           SizeOf(croppedImage) = SizeOf(cropped)

\* C10: constrainAngle maps every integer to the value of [0, 360)
\* congruent to it modulo 360, and maps that value to itself.
C10_ConstrainAngle ==
    pc # "start" =>
        /\ 0 <= angle /\ angle < FULL_TURN
        /\ (angle0 - angle) % FULL_TURN = 0
        /\ constrainAngle(angle) = angle

C10_Witness ==
    /\ pc = "cropped"
    /\ angle0 < -FULL_TURN
    /\ angle # angle0

====
